---- MODULE Spec2Model ----
(***************************************************************************)
(* State-machine model of the expense tracker in src/app.py: the two       *)
(* tables (User, Expense), the login session of one browser, the server    *)
(* clock, and the response of the last request.  One action per route and  *)
(* HTTP method; every handler is one atomic step that ends with its commit *)
(* and its response.                                                       *)
(*                                                                         *)
(* Spec runs every route for two users; SpecAuth runs the authentication   *)
(* routes over the full range of usernames, passwords and salts.           *)
(***************************************************************************)
EXTENDS Integers, Sequences, FiniteSets, TLC

(* ------------------------------ bounds --------------------------------- *)
\* largest primary key the expense table hands out in the model
MaxId == 2
\* largest value of the server clock
MaxClock == 2
\* largest number of registered users
MaxUsers == 2

\* clock ticks per calendar month (dt.to_period('M') buckets dates by month)
TicksPerMonth == 2
\* the anonymous user: no user id in the session
NoUser == 0

Usernames == {"", "alice", "bob"}
Passwords == {"pw1", "pw2"}
Salts == {"s1", "s2"}
Descriptions == {"lunch", "bus"}
Categories == {"food", "transport"}
\* lexicographic order of the category strings, as sorted() orders them
CategoryOrder == <<"food", "transport">>
\* amount texts as character sequences: "12", "-3", "3x"
AmountTexts == {<<"1", "2">>, <<"-", "3">>, <<"3", "x">>}
\* category_filter form values: absent/empty, the sentinel, a category
NoFilter == ""
Filters == {NoFilter, "all"} \cup Categories
ExpenseIds == 1..MaxId

VARIABLES users, expenses, session, now, resp
vars == <<users, expenses, session, now, resp>>

(* --------------------------- pure helpers ------------------------------ *)
Digits == {"0", "1", "2", "3", "4", "5", "6", "7", "8", "9"}
DigitValue(c) == CHOOSE n \in 0..9 : <<"0", "1", "2", "3", "4", "5", "6", "7", "8", "9">>[n + 1] = c

RECURSIVE DigitsValue(_, _)
DigitsValue(t, acc) ==
    IF t = <<>> THEN acc ELSE DigitsValue(Tail(t), acc * 10 + DigitValue(Head(t)))

AllDigits(t) == t # <<>> /\ \A i \in 1..Len(t) : t[i] \in Digits

\* float(text): an optional sign followed by digits parses; anything else raises
\* ValueError.  Amounts of the model are whole numbers.
ParseFloat(t) ==
    IF AllDigits(t) THEN [ok |-> TRUE, value |-> DigitsValue(t, 0)]
    ELSE IF t # <<>> /\ Head(t) \in {"-", "+"} /\ AllDigits(Tail(t))
         THEN [ok |-> TRUE,
               value |-> IF Head(t) = "-" THEN 0 - DigitsValue(Tail(t), 0)
                         ELSE DigitsValue(Tail(t), 0)]
         ELSE [ok |-> FALSE, value |-> 0]

\* generate_password_hash(password): a salted one-way hash; the digest is the
\* symbolic term hash(salt, password), equal only for equal salt and password.
generate_password_hash(password, salt) ==
    [method |-> "scrypt", salt |-> salt, digest |-> <<salt, password>>]

\* a verification that re-hashes with one fixed salt
check_password_hash_fixed_salt(pwhash, password) ==
    pwhash = generate_password_hash(password, "s1")

\* check_password_hash(pwhash, password): re-hash with the stored salt
check_password_hash(pwhash, password) ==
    pwhash = generate_password_hash(password, pwhash.salt)

\* all orderings of a finite set
SeqsOf(S) ==
    {q \in [1..Cardinality(S) -> S] : \A i, j \in 1..Cardinality(S) : i # j => q[i] # q[j]}

\* rows in primary-key order
OrderById(S) == CHOOSE q \in SeqsOf(S) : \A i, j \in 1..Len(q) : i < j => q[i].id < q[j].id

\* next INTEGER PRIMARY KEY of a table: largest id in use plus one
NextId(rows) ==
    IF rows = {} THEN 1 ELSE 1 + (CHOOSE m \in {r.id : r \in rows} : \A r \in rows : r.id <= m)

(* ------------------------------ queries -------------------------------- *)
\* a registration that never finds the existing row
FindUserNever(username) == {}

\* User.query.filter_by(username=username)
FindUser(username) == {u \in users : u.username = username}

\* load_user / current_user: the user the session names, if any
is_authenticated == \E u \in users : u.id = session

\* a lookup by id alone, without the owner
ExpenseById(id, uid) == {e \in expenses : e.id = id}

\* Expense.query.filter_by(id=id, user_id=current_user.id)
OwnedExpense(id, uid) == {e \in expenses : e.id = id /\ e.user_id = uid}

\* Expense.query.filter_by(user_id=current_user.id)
ExpensesOf(uid) == {e \in expenses : e.user_id = uid}

(* ----------------------------- responses ------------------------------- *)
NoChart == [url |-> "None", data |-> {}]

BaseResp ==
    [op |-> "start", method |-> "GET", id |-> 0, status |-> "200", target |-> "",
     flash |-> "", expense |-> {}, listing |-> <<>>, all_categories |-> <<>>,
     current_filter |-> NoFilter, pie_plot_url |-> NoChart, bar_plot_url |-> NoChart,
     time_series_plot_url |-> NoChart, has_expenses |-> FALSE,
     category_totals_pie_json |-> {}, monthly_totals_json |-> {}]

Response(op, method, id, status, target, flash) ==
    [BaseResp EXCEPT !.op = op, !.method = method, !.id = id, !.status = status,
                     !.target = target, !.flash = flash]

Init ==
    /\ users = {}
    /\ expenses = {}
    /\ session = NoUser
    /\ now = 0
    /\ resp = BaseResp

(* --------------------------- authentication ---------------------------- *)
\* a route left without the decorator
login_not_required(op, method, id, view) == view

\* @login_required: an anonymous request is flashed and redirected to the
\* login view (login_manager.login_view = 'login'); the view does not run.
login_required(op, method, id, view) ==
    IF is_authenticated
    THEN view
    ELSE /\ resp' = Response(op, method, id, "302", "login",
                             "Please log in to access this page.")
         /\ UNCHANGED <<users, expenses, session, now>>

\* db.session.add(new_user); db.session.commit() under the UNIQUE constraint
\* of User.username: the rows after the commit, or the rows as they were
\* when the commit raises IntegrityError.
InsertUser(username, pwhash) ==
    IF \E u \in users : u.username = username
    THEN users
    ELSE users \cup {[id |-> NextId(users), username |-> username, password |-> pwhash]}

RegisterGet ==
    /\ resp' = Response("register", "GET", 0, "200", "register.html", "")
    /\ UNCHANGED <<users, expenses, session, now>>

RegisterPost(username, password, salt) ==
    IF FindUser(username) # {}
    THEN /\ resp' = Response("register", "POST", 0, "302", "register",
                             "Username already exists. Please choose another one.")
         /\ UNCHANGED <<users, expenses, session, now>>
    ELSE /\ Cardinality(users) < MaxUsers
         /\ users' = InsertUser(username, generate_password_hash(password, salt))
         /\ resp' = IF users' = users
                    THEN Response("register", "POST", 0, "500", "", "")
                    ELSE Response("register", "POST", 0, "302", "login",
                                  "Registration successful! Please log in.")
         /\ UNCHANGED <<expenses, session, now>>

LoginGet ==
    /\ resp' = Response("login", "GET", 0, "200", "login.html", "")
    /\ UNCHANGED <<users, expenses, session, now>>

LoginPost(username, password) ==
    LET found == FindUser(username) IN
    IF found # {} /\ check_password_hash((CHOOSE u \in found : TRUE).password, password)
    THEN /\ session' = (CHOOSE u \in found : TRUE).id
         /\ resp' = Response("login", "POST", 0, "302", "index", "")
         /\ UNCHANGED <<users, expenses, now>>
    ELSE /\ resp' = Response("login", "POST", 0, "302", "login",
                             "Invalid username or password.")
         /\ UNCHANGED <<users, expenses, session, now>>

Logout ==
    login_required("logout", "GET", 0,
        /\ session' = NoUser
        /\ resp' = Response("logout", "GET", 0, "302", "index", "")
        /\ UNCHANGED <<users, expenses, now>>)

Index ==
    login_required("index", "GET", 0,
        /\ resp' = Response("index", "GET", 0, "200", "index.html", "")
        /\ UNCHANGED <<users, expenses, session, now>>)

(* ------------------------- expense management -------------------------- *)
\* a date default evaluated once, when the module is loaded
NewExpenseStaleDate(description, amount, category, uid, date) ==
    [id |-> NextId(expenses), description |-> description, amount |-> amount,
     category |-> category, date |-> 0, user_id |-> uid]

\* Expense(description, amount, category, user_id) with date defaulting to
\* datetime.utcnow() when the row is inserted
NewExpense(description, amount, category, uid, date) ==
    [id |-> NextId(expenses), description |-> description, amount |-> amount,
     category |-> category, date |-> date, user_id |-> uid]

AddExpenseGet ==
    login_required("add_expense", "GET", 0,
        /\ resp' = Response("add_expense", "GET", 0, "200", "add_expense.html", "")
        /\ UNCHANGED <<users, expenses, session, now>>)

\* elapsed: server time that passes between the call and the insert
AddExpensePost(description, amount_text, category, elapsed) ==
    login_required("add_expense", "POST", 0,
        LET amount == ParseFloat(amount_text) IN
        IF ~amount.ok
        THEN \* float() raises ValueError: nothing catches it
             /\ resp' = Response("add_expense", "POST", 0, "500", "", "")
             /\ UNCHANGED <<users, expenses, session, now>>
        ELSE /\ NextId(expenses) <= MaxId
             /\ now + elapsed <= MaxClock
             /\ now' = now + elapsed
             /\ expenses' = expenses \cup
                    {NewExpense(description, amount.value, category, session, now')}
             /\ resp' = Response("add_expense", "POST", NextId(expenses), "302",
                                 "view_expenses", "")
             /\ UNCHANGED <<users, session>>)

\* an edit that also stamps the row with the current time
EditedExpenseRedated(e, description, amount, category) ==
    [e EXCEPT !.description = description, !.amount = amount, !.category = category,
              !.date = now]

\* the three assignments of the POST branch of edit_expense
EditedExpense(e, description, amount, category) ==
    [e EXCEPT !.description = description, !.amount = amount, !.category = category]

EditExpenseGet(id) ==
    login_required("edit_expense", "GET", id,
        LET found == OwnedExpense(id, session) IN
        /\ resp' = IF found = {}
                   THEN Response("edit_expense", "GET", id, "404", "", "")
                   ELSE [Response("edit_expense", "GET", id, "200", "edit_expense.html", "")
                            EXCEPT !.expense = found]
        /\ UNCHANGED <<users, expenses, session, now>>)

EditExpensePost(id, description, amount_text, category) ==
    login_required("edit_expense", "POST", id,
        LET found == OwnedExpense(id, session)
            amount == ParseFloat(amount_text) IN
        IF found = {}
        THEN /\ resp' = Response("edit_expense", "POST", id, "404", "", "")
             /\ UNCHANGED <<users, expenses, session, now>>
        ELSE IF ~amount.ok
        THEN \* float() raises ValueError after description was assigned; the
             \* session is never committed and is discarded with the request
             /\ resp' = Response("edit_expense", "POST", id, "500", "", "")
             /\ UNCHANGED <<users, expenses, session, now>>
        ELSE LET e == CHOOSE x \in found : TRUE IN
             /\ expenses' = (expenses \ {e}) \cup
                    {EditedExpense(e, description, amount.value, category)}
             /\ resp' = Response("edit_expense", "POST", id, "302", "view_expenses",
                                 "Expense updated successfully!")
             /\ UNCHANGED <<users, session, now>>)

\* a delete that drops every row of the owner
DeleteRowsOfOwner(e) == expenses \ {x \in expenses : x.user_id = e.user_id}

\* db.session.delete(expense_to_delete); db.session.commit()
DeleteRow(e) == expenses \ {e}

DeleteExpense(id) ==
    login_required("delete_expense", "GET", id,
        LET found == OwnedExpense(id, session) IN
        IF found = {}
        THEN /\ resp' = Response("delete_expense", "GET", id, "404", "", "")
             /\ UNCHANGED <<users, expenses, session, now>>
        ELSE /\ expenses' = DeleteRow(CHOOSE x \in found : TRUE)
             /\ resp' = Response("delete_expense", "GET", id, "302", "view_expenses",
                                 "Expense deleted successfully!")
             /\ UNCHANGED <<users, session, now>>)

\* the rows of expenses_query.all(): the user's expenses, restricted to the
\* category when a filter other than 'all' is given, ordered by date
\* descending; rows of equal date come in any order
Listings(uid, category_filter) ==
    LET rows == IF category_filter # NoFilter /\ category_filter # "all"
                THEN {e \in ExpensesOf(uid) : e.category = category_filter}
                ELSE ExpensesOf(uid)
    IN {q \in SeqsOf(rows) : \A i, j \in 1..Len(q) : i < j => q[i].date >= q[j].date}

\* ['all'] + sorted(set(categories of the user's expenses))
AllCategories(uid) ==
    <<"all">> \o SelectSeq(CategoryOrder, LAMBDA c : \E e \in ExpensesOf(uid) : e.category = c)

ViewExpenses(method, category_filter) ==
    login_required("view_expenses", method, 0,
        /\ \E q \in Listings(session, category_filter) :
              resp' = [Response("view_expenses", method, 0, "200", "view_expenses.html", "")
                          EXCEPT !.listing = q,
                                 !.all_categories = AllCategories(session),
                                 !.current_filter = category_filter]
        /\ UNCHANGED <<users, expenses, session, now>>)

(* ------------------------------ reporting ------------------------------ *)
\* for expense in expenses: totals[key(expense)] += expense.amount, on a
\* defaultdict(float); the dict is a function on the keys seen so far
CategoryOf(e) == e.category
\* pd.to_datetime(date).dt.to_period('M'): the calendar month of a date
MonthOf(e) == e.date \div TicksPerMonth
\* the grouping key: the category, or the month of the date
KeyOf(by, e) == IF by = "category" THEN CategoryOf(e) ELSE MonthOf(e)

RECURSIVE Accumulate(_, _, _)
Accumulate(rows, by, totals) ==
    IF rows = <<>> THEN totals
    ELSE LET e == Head(rows)
             k == KeyOf(by, e)
             before == IF k \in DOMAIN totals THEN totals[k] ELSE 0
         IN Accumulate(Tail(rows), by,
                       [x \in DOMAIN totals \cup {k} |->
                           IF x = k THEN before + e.amount ELSE totals[x]])

EmptyDict == [x \in {} |-> 0]
\* dict.items()
Items(d) == {<<k, d[k]>> : k \in DOMAIN d}

Chart(points) ==
    IF points = {} THEN NoChart ELSE [url |-> "data:image/png;base64", data |-> points]

\* category_totals_pie of show_summary and the pie drawn from it
category_totals_pie(rows) == Accumulate(rows, "category", EmptyDict)

generate_category_bar_chart(rows) ==
    Chart(Items(Accumulate(rows, "category", EmptyDict)))

generate_time_series_plot_matplotlib(rows) ==
    IF rows = <<>> THEN NoChart
    ELSE Chart(Items(Accumulate(rows, "month", EmptyDict)))

\* json.dumps(d): the (key, number) members of the JSON object
json_dumps(d) == Items(d)

\* json.dumps(dict(sorted(defaultdict(float).items()))): a fresh, empty dict
monthly_totals_json == json_dumps(EmptyDict)

ShowSummary ==
    login_required("show_summary", "GET", 0,
        LET rows == OrderById(ExpensesOf(session)) IN
        /\ resp' = IF \E kv \in Items(category_totals_pie(rows)) : kv[2] < 0
                   THEN \* plt.pie(sizes) raises ValueError on a negative wedge size
                        Response("show_summary", "GET", 0, "500", "", "")
                   ELSE [Response("show_summary", "GET", 0, "200", "summary.html", "")
                       EXCEPT !.pie_plot_url = Chart(Items(category_totals_pie(rows))),
                              !.bar_plot_url = generate_category_bar_chart(rows),
                              !.time_series_plot_url =
                                   generate_time_series_plot_matplotlib(rows),
                              !.has_expenses = (rows # <<>>),
                              !.category_totals_pie_json =
                                   json_dumps(category_totals_pie(rows)),
                              !.monthly_totals_json = monthly_totals_json]
        /\ UNCHANGED <<users, expenses, session, now>>)

(* --------------------------- specifications ---------------------------- *)
\* the form submissions of Spec: two that parse, differing in every field,
\* and one whose amount does not parse
Forms ==
    {[description |-> "lunch", amount |-> <<"1", "2">>, category |-> "food"],
     [description |-> "bus", amount |-> <<"-", "3">>, category |-> "transport"],
     [description |-> "bus", amount |-> <<"3", "x">>, category |-> "food"]}

\* Spec: every route, two users with one password each
Next ==
    \/ RegisterGet
    \/ \E u \in {"alice", "bob"} : RegisterPost(u, "pw1", "s1")
    \/ LoginGet
    \/ \E u \in {"alice", "bob"} : LoginPost(u, "pw1")
    \/ Logout
    \/ Index
    \/ AddExpenseGet
    \/ \E f \in Forms, dt \in 0..1 :
          AddExpensePost(f.description, f.amount, f.category, dt)
    \/ \E id \in ExpenseIds : EditExpenseGet(id)
    \/ \E id \in ExpenseIds, f \in Forms :
          EditExpensePost(id, f.description, f.amount, f.category)
    \/ \E id \in ExpenseIds : DeleteExpense(id)
    \/ \E f \in Filters : ViewExpenses("POST", f)
    \/ ViewExpenses("GET", NoFilter)
    \/ ShowSummary

Spec == Init /\ [][Next]_vars

\* SpecAuth: the authentication routes with the full range of credentials
NextAuth ==
    \/ RegisterGet
    \/ \E u \in Usernames, p \in Passwords, s \in Salts : RegisterPost(u, p, s)
    \/ LoginGet
    \/ \E u \in Usernames, p \in Passwords : LoginPost(u, p)
    \/ Logout
    \/ Index

SpecAuth == Init /\ [][NextAuth]_vars

(* ------------------------------- claims -------------------------------- *)
Ids(rows) == {r.id : r \in rows}
DuplicateUsername == "Username already exists. Please choose another one."
InvalidCredentials == "Invalid username or password."
ProtectedOps ==
    {"index", "logout", "add_expense", "edit_expense", "view_expenses",
     "delete_expense", "show_summary"}

\* C1: a request for the edit form, an edit submission or a delete addressed
\* at the id of an expense owned by another user answers 404 and leaves every
\* expense (so that one too) exactly as it was.
C1_NonOwnerNotFound ==
    [][(/\ session # NoUser
        /\ resp'.op \in {"edit_expense", "delete_expense"}
        /\ \E e \in expenses : e.id = resp'.id /\ e.user_id # session)
       => (resp'.status = "404" /\ expenses' = expenses /\ session' = session)]_vars

C1_Witness ==
    /\ resp.op = "edit_expense" /\ resp.method = "POST" /\ resp.status = "404"
    /\ session # NoUser
    /\ \E e \in expenses : e.id = resp.id /\ e.user_id # session

\* C2: registering a username that is already registered answers with the
\* duplicate-username notice and a redirect to the registration page, and
\* leaves the users (their number and their password hashes) unchanged,
\* whatever the password.
C2_DuplicateRegister ==
    [][(resp'.op = "register" /\ resp'.method = "POST")
       => \A u \in Usernames, p \in Passwords, s \in Salts :
             ((\E x \in users : x.username = u) /\ RegisterPost(u, p, s))
             => (resp'.flash = DuplicateUsername /\ resp'.target = "register"
                 /\ users' = users)]_vars

C2_Witness ==
    /\ resp.op = "register" /\ resp.flash = DuplicateUsername
    /\ Cardinality(users) = 2

\* C3: a login succeeds exactly when a user of that name exists and the
\* password is the one its stored hash was made from; then the session holds
\* that user's id; otherwise the invalid-credentials notice is flashed and the
\* session is left as it was.
C3_LoginIff ==
    [][(resp'.op = "login" /\ resp'.method = "POST")
       => \A u \in Usernames, p \in Passwords :
             LoginPost(u, p) =>
               LET match == {x \in users : x.username = u /\ x.password.digest[2] = p} IN
               IF match # {}
               THEN resp'.target = "index" /\ resp'.flash = ""
                    /\ \E x \in match : session' = x.id
               ELSE resp'.target = "login" /\ resp'.flash = InvalidCredentials
                    /\ session' = session]_vars

C3_Witness ==
    /\ resp.op = "login" /\ resp.method = "POST" /\ resp.target = "index"
    /\ Cardinality(users) = 2
    /\ \E x \in users : x.id = session /\ x.password.salt = "s2"

\* C4: a request to a protected route without a session identity is
\* redirected to the login view and changes neither users, expenses nor the
\* session.
C4_AnonymousRejected ==
    [][(session = NoUser /\ resp'.op \in ProtectedOps)
       => (resp'.status = "302" /\ resp'.target = "login"
           /\ users' = users /\ expenses' = expenses /\ session' = session)]_vars

C4_Witness ==
    /\ session = NoUser /\ expenses # {}
    /\ resp.op = "delete_expense" /\ resp.target = "login"
    /\ \E e \in expenses : e.id = resp.id

\* C5: a successful edit by the owner replaces description, amount and
\* category of the addressed expense by the submitted values, keeps its id,
\* date and owner, and changes no other expense and no user.
C5_EditFrame ==
    [][(resp'.op = "edit_expense" /\ resp'.flash = "Expense updated successfully!")
       => \A id \in ExpenseIds, d \in Descriptions, t \in AmountTexts, c \in Categories :
          EditExpensePost(id, d, t, c)
          => /\ users' = users
             /\ \E e \in expenses :
                   /\ e.id = id /\ e.user_id = session
                   /\ expenses' = (expenses \ {e}) \cup
                        {[id |-> e.id, description |-> d, amount |-> ParseFloat(t).value,
                          category |-> c, date |-> e.date, user_id |-> e.user_id]}]_vars

C5_Witness ==
    /\ resp.op = "edit_expense" /\ resp.flash = "Expense updated successfully!"
    /\ Cardinality(expenses) = 2
    /\ \E e \in expenses : e.id = resp.id /\ e.date < now

\* C6: a successful delete removes exactly the addressed expense of the
\* owner; while an id is absent, edit and delete addressed at it answer 404
\* and no listing shows a row that is not stored; an absent id comes back only
\* through an add that creates a record with that id.
C6_DeletedStaysGone ==
    [][/\ (resp'.op = "delete_expense" /\ resp'.target = "view_expenses")
          => \E e \in expenses :
                e.id = resp'.id /\ e.user_id = session /\ expenses' = expenses \ {e}
       /\ \A id \in ExpenseIds \ Ids(expenses) :
             /\ (session # NoUser /\ resp'.op \in {"edit_expense", "delete_expense"}
                 /\ resp'.id = id) => resp'.status = "404"
             /\ id \in Ids(expenses') => (resp'.op = "add_expense" /\ resp'.id = id)
       /\ resp'.op = "view_expenses"
          => \A i \in 1..Len(resp'.listing) : resp'.listing[i] \in expenses']_vars

C6_Witness ==
    /\ resp.op = "edit_expense" /\ resp.status = "404" /\ session # NoUser
    /\ resp.id \notin Ids(expenses)
    /\ \E e \in expenses : e.id > resp.id /\ e.user_id = session

\* C7: an add or an edit by the owner submitted with an amount text that does
\* not parse answers with a notice and a redirect, and changes no expense.
C7_InvalidAmountNotice ==
    [][(session # NoUser /\ resp'.op \in {"add_expense", "edit_expense"}
        /\ resp'.method = "POST")
       => \A id \in ExpenseIds, d \in Descriptions, t \in AmountTexts, c \in Categories :
             (/\ ~ParseFloat(t).ok
              /\ \/ AddExpensePost(d, t, c, 0)
                 \/ (EditExpensePost(id, d, t, c) /\ OwnedExpense(id, session) # {}))
             => (resp'.status = "302" /\ resp'.flash # "" /\ expenses' = expenses)]_vars

\* C8: an add by a user stores one new expense with the submitted
\* description, amount and category, owned by that user and dated between the
\* call and its end; a listing without filter requested right after it shows
\* that expense exactly once; a listing shows only expenses of the user who
\* asks for it.
C8_AddThenList ==
    [][/\ (resp'.op = "add_expense" /\ resp'.target = "view_expenses")
          => \A d \in Descriptions, t \in AmountTexts, c \in Categories, dt \in 0..1 :
             AddExpensePost(d, t, c, dt)
             => /\ resp'.id \notin Ids(expenses)
                /\ now <= now'
                /\ expenses' = expenses \cup
                     {[id |-> resp'.id, description |-> d, amount |-> ParseFloat(t).value,
                       category |-> c, date |-> now', user_id |-> session]}
       /\ (/\ resp.op = "add_expense" /\ resp.target = "view_expenses"
           /\ resp'.op = "view_expenses" /\ resp'.status = "200"
           /\ resp'.current_filter = NoFilter)
          => /\ Cardinality({i \in 1..Len(resp'.listing) : resp'.listing[i].id = resp.id}) = 1
             /\ \A i \in 1..Len(resp'.listing) : resp'.listing[i] \in expenses
       /\ (resp'.op = "view_expenses" /\ resp'.status = "200")
          => \A i \in 1..Len(resp'.listing) : resp'.listing[i].user_id = session]_vars

C8_Witness ==
    /\ resp.op = "add_expense" /\ resp.target = "view_expenses"
    /\ \E e, f \in expenses :
          /\ e.id = resp.id /\ e.user_id = session /\ e.date > 0
          /\ f.user_id # session

\* C9: every stored user has a non-empty username and no two users share one.
C9_UsernamesUniqueNonEmpty ==
    \A u, v \in users : u.username # "" /\ (u.username = v.username => u = v)

\* C10: the summary's exported category totals are the totals drawn in the
\* pie and in the bar chart, and its exported monthly totals are the totals
\* drawn in the time-series plot.
C10_ExportEqualsDisplay ==
    (resp.op = "show_summary" /\ resp.status = "200")
    => /\ resp.category_totals_pie_json = resp.pie_plot_url.data
       /\ resp.category_totals_pie_json = resp.bar_plot_url.data
       /\ resp.monthly_totals_json = resp.time_series_plot_url.data
====
